---- MODULE Spec2Model ----
(***************************************************************************)
(* State-machine model of src/jtag/drivers/esp_gpio.c, the Espressif       *)
(* dedicated-GPIO bit-bang adapter driver (JTAG and SWD).                  *)
(*                                                                         *)
(* The state is the driver's file-scope variables, the GPIO pads it        *)
(* touches, the CPU's dedicated-GPIO output register, and the position of  *)
(* the one thread of control (pc).  esp_gpio_init and esp_gpio_write are   *)
(* modelled statement by statement, because the order of their hardware    *)
(* accesses is observable on the pads; every other handler is one action.  *)
(***************************************************************************)
EXTENDS Integers, Sequences, FiniteSets, TLC

(* ------------------------------------------------------------------ *)
(* Bounds of the model                                                 *)
(* ------------------------------------------------------------------ *)

\* Number of configuration commands issued before init.
MaxCmds == 2

\* Largest argument count a configuration command is invoked with.
MaxArgc == 4

(* ------------------------------------------------------------------ *)
(* Program constants                                                   *)
(* ------------------------------------------------------------------ *)

GPIO_NUM_NC == -1

GPIO_TCK_MASK == 1
GPIO_TDI_MASK == 2
GPIO_TMS_MASK == 4
GPIO_TRST_MASK == 8
GPIO_SRST_MASK == 16
GPIO_BLINK_MASK == 32

ERROR_OK == 0
ERROR_FAIL == -4
ERROR_COMMAND_SYNTAX_ERROR == -601
ERROR_COMMAND_ARGUMENT_INVALID == -603

\* int khz = 5000 in esp_gpio_init
InitKhz == 5000

NULL == "NULL"

\* The value of a bundle handle that holds no bundle.
NO_BUNDLE == [gpio_array |-> <<>>, flags |-> "none"]

(* ------------------------------------------------------------------ *)
(* Platform: pin validity, pads, dedicated-GPIO register               *)
(* ------------------------------------------------------------------ *)

\* GPIO numbers of the SoC that exist as pads, and those that can drive
\* (the last pad is input-only).
SocValidGpios == (0..21) \cup (26..46)
SocValidOutputGpios == SocValidGpios \ {46}

GPIO_IS_VALID_GPIO(g) == g >= 0 /\ g \in SocValidGpios
GPIO_IS_VALID_OUTPUT_GPIO(g) == g >= 0 /\ g \in SocValidOutputGpios

\* The argument strings the configuration commands are invoked with, and
\* what parse_int makes of each; a string outside the table is not a number.
NumTable ==
    [s \in {"4", "5", "6", "7", "8", "9", "10", "11", "12", "46"} |->
       CASE s = "4" -> 4 [] s = "5" -> 5 [] s = "6" -> 6 [] s = "7" -> 7
         [] s = "8" -> 8 [] s = "9" -> 9 [] s = "10" -> 10 [] s = "11" -> 11
         [] s = "12" -> 12 [] s = "46" -> 46]

\* The strings tried as the argument that names each signal's pin: a free
\* output pin, and per signal a pin shared with another signal, the
\* input-only pin, or a string that is not a number.
ArgsFor ==
    [tck |-> {"4", "x"}, tms |-> {"5", "4"}, tdi |-> {"6", "46", "x"},
     tdo |-> {"7", "46"}, trst |-> {"8", "x"}, srst |-> {"9"}, blink |-> {"12"},
     swclk |-> {"10", "x"}, swdio |-> {"11", "46"}]

\* The pads the model tracks: every valid GPIO an argument can name.
Pads == {NumTable[s] : s \in DOMAIN NumTable} \cap SocValidGpios

Signals == DOMAIN ArgsFor

BitAt(x, i) == (x \div (2 ^ i)) % 2

RECURSIVE MaskMerge(_, _, _, _)
MaskMerge(reg, mask, value, i) ==
    IF i > 7 THEN 0
    ELSE (2 ^ i) * (IF BitAt(mask, i) = 1 THEN BitAt(value, i) ELSE BitAt(reg, i))
         + MaskMerge(reg, mask, value, i + 1)

\* dedic_gpio_cpu_ll_write_mask(mask, value) on the 8-bit output register.
dedic_gpio_cpu_ll_write_mask(reg, mask, value) == MaskMerge(reg, mask, value, 0)

VARIABLES
    transport,        \* the session's transport, fixed by the environment
    gpio,             \* tck_gpio .. swclk_gpio, one field per signal
    jtag_delay,
    s_jtag_speed_khz,
    level, dir,       \* per pad: latched output level, direction
    out_reg,          \* CPU dedicated-GPIO output register
    gpio_out_bundle, gpio_in_bundle,
    bundle_out_gpios, \* local array of esp_gpio_init
    bitbang_interface,
    blink,            \* esp_gpio_bitbang.blink
    pc,               \* position of the thread of control
    op,               \* the call in progress or last returned: its name, its
                      \* arguments, the values it stored through out-parameters
    ret,              \* return value of the last returned call
    ncmds

vars == <<transport, gpio, jtag_delay, s_jtag_speed_khz, level, dir, out_reg,
          gpio_out_bundle, gpio_in_bundle, bundle_out_gpios, bitbang_interface,
          blink, pc, op, ret, ncmds>>

hw == <<level, dir, out_reg>>
bundles == <<gpio_out_bundle, gpio_in_bundle, bundle_out_gpios>>
table == <<bitbang_interface, blink>>
speed == <<jtag_delay, s_jtag_speed_khz>>

tck_gpio == gpio.tck
tms_gpio == gpio.tms
tdi_gpio == gpio.tdi
tdo_gpio == gpio.tdo
trst_gpio == gpio.trst
srst_gpio == gpio.srst
blink_gpio == gpio.blink
swdio_gpio == gpio.swdio
swclk_gpio == gpio.swclk

transport_is_jtag == transport = "jtag"
transport_is_swd == transport = "swd"

Init ==
    /\ transport \in {"jtag", "swd"}
    /\ gpio = [s \in Signals |-> GPIO_NUM_NC]
    /\ jtag_delay = 0
    /\ s_jtag_speed_khz = 0
    /\ level = [p \in Pads |-> 0]
    /\ dir = [p \in Pads |-> "disabled"]
    /\ out_reg = 0
    /\ gpio_out_bundle = NO_BUNDLE
    /\ gpio_in_bundle = NO_BUNDLE
    /\ bundle_out_gpios = <<>>
    /\ bitbang_interface = NULL
    /\ blink = NULL
    /\ pc = "config"
    /\ op = [name |-> "none", args |-> <<>>, outs |-> <<>>]
    /\ ret = ERROR_OK
    /\ ncmds = 0

(* ------------------------------------------------------------------ *)
(* Configuration commands                                              *)
(* ------------------------------------------------------------------ *)

\* parse_int: the number a string denotes, or a failure that stores nothing.
parse_int(s) ==
    IF s \in DOMAIN NumTable
    THEN [ok |-> TRUE, val |-> NumTable[s]]
    ELSE [ok |-> FALSE, val |-> 0]

\* COMMAND_PARSE_NUMBER(int, in, out) inside a handler whose running result
\* is r: once the handler has returned (r.done) nothing more happens; a
\* parse failure returns its error from the handler; a success stores the
\* number in the named pin variable and the handler goes on.
COMMAND_PARSE_NUMBER(r, in, sig) ==
    IF r.done THEN r
    ELSE IF parse_int(in).ok
         THEN [r EXCEPT !.g = [r.g EXCEPT ![sig] = parse_int(in).val]]
         ELSE [r EXCEPT !.done = TRUE, !.ret = ERROR_COMMAND_ARGUMENT_INVALID]

Enter(g) == [g |-> g, ret |-> ERROR_OK, done |-> FALSE]
Return(r, code) == IF r.done THEN r ELSE [r EXCEPT !.done = TRUE, !.ret = code]

esp_gpio_handle_jtag_gpionums(g, argc, argv) ==
    IF argc = 4
    THEN Return(COMMAND_PARSE_NUMBER(
                  COMMAND_PARSE_NUMBER(
                    COMMAND_PARSE_NUMBER(
                      COMMAND_PARSE_NUMBER(Enter(g), argv[1], "tck"),
                      argv[2], "tms"),
                    argv[3], "tdi"),
                  argv[4], "tdo"), ERROR_OK)
    ELSE IF argc # 0
         THEN Return(Enter(g), ERROR_COMMAND_SYNTAX_ERROR)
         ELSE Return(Enter(g), ERROR_OK)

\* The body the nine single-pin handlers share, for the pin variable sig.
SinglePinHandler(g, argc, argv, sig) ==
    IF argc = 1
    THEN Return(COMMAND_PARSE_NUMBER(Enter(g), argv[1], sig), ERROR_OK)
    ELSE Return(Enter(g), ERROR_OK)

esp_gpio_handle_jtag_gpionum_tck(g, argc, argv) == SinglePinHandler(g, argc, argv, "tck")
esp_gpio_handle_jtag_gpionum_tms(g, argc, argv) == SinglePinHandler(g, argc, argv, "tms")
esp_gpio_handle_jtag_gpionum_tdo(g, argc, argv) == SinglePinHandler(g, argc, argv, "tdo")
esp_gpio_handle_jtag_gpionum_tdi(g, argc, argv) == SinglePinHandler(g, argc, argv, "tdi")
esp_gpio_handle_jtag_gpionum_srst(g, argc, argv) == SinglePinHandler(g, argc, argv, "srst")
esp_gpio_handle_jtag_gpionum_trst(g, argc, argv) == SinglePinHandler(g, argc, argv, "trst")
esp_gpio_handle_jtag_gpionum_blink(g, argc, argv) == SinglePinHandler(g, argc, argv, "blink")

esp_gpio_handle_swd_gpionums(g, argc, argv) ==
    IF argc = 2
    THEN Return(COMMAND_PARSE_NUMBER(
                  COMMAND_PARSE_NUMBER(Enter(g), argv[1], "swclk"),
                  argv[2], "swdio"), ERROR_OK)
    ELSE IF argc # 0
         THEN Return(Enter(g), ERROR_COMMAND_SYNTAX_ERROR)
         ELSE Return(Enter(g), ERROR_OK)

esp_gpio_handle_swd_gpionum_swclk(g, argc, argv) == SinglePinHandler(g, argc, argv, "swclk")
esp_gpio_handle_swd_gpionum_swdio(g, argc, argv) == SinglePinHandler(g, argc, argv, "swdio")

\* The argument vectors a command whose arguments name the pins of sigs is
\* tried with: every vector of the strings of ArgsFor when the count is the
\* one the handler parses, and one vector per other count (the handler
\* never looks at those strings).
ArgVecs(argc, sigs) ==
    IF argc = Len(sigs)
    THEN {v \in [1..argc -> DOMAIN NumTable \cup {"x"}] :
             \A i \in 1..argc : v[i] \in ArgsFor[sigs[i]]}
    ELSE {[i \in 1..argc |-> "x"]}

\* One configuration command, run by the command framework before init.
RunCommand(name, sigs, Handler(_, _, _)) ==
    /\ pc = "config"
    /\ ncmds < MaxCmds
    /\ \E argc \in 0..MaxArgc : \E argv \in ArgVecs(argc, sigs) :
         LET r == Handler(gpio, argc, argv) IN
         /\ gpio' = r.g
         /\ ret' = r.ret
         /\ op' = [name |-> name, args |-> <<argc>>, outs |-> <<>>]
    /\ ncmds' = ncmds + 1
    /\ UNCHANGED <<transport, hw, bundles, table, speed, pc>>

Cmd_jtag_nums == RunCommand("esp_gpio_jtag_nums", <<"tck", "tms", "tdi", "tdo">>, esp_gpio_handle_jtag_gpionums)
Cmd_tck_num == RunCommand("esp_gpio_tck_num", <<"tck">>, esp_gpio_handle_jtag_gpionum_tck)
Cmd_tms_num == RunCommand("esp_gpio_tms_num", <<"tms">>, esp_gpio_handle_jtag_gpionum_tms)
Cmd_tdo_num == RunCommand("esp_gpio_tdo_num", <<"tdo">>, esp_gpio_handle_jtag_gpionum_tdo)
Cmd_tdi_num == RunCommand("esp_gpio_tdi_num", <<"tdi">>, esp_gpio_handle_jtag_gpionum_tdi)
Cmd_srst_num == RunCommand("esp_gpio_srst_num", <<"srst">>, esp_gpio_handle_jtag_gpionum_srst)
Cmd_trst_num == RunCommand("esp_gpio_trst_num", <<"trst">>, esp_gpio_handle_jtag_gpionum_trst)
Cmd_blink_num == RunCommand("esp_gpio_blink_num", <<"blink">>, esp_gpio_handle_jtag_gpionum_blink)
Cmd_swd_nums == RunCommand("esp_gpio_swd_nums", <<"swclk", "swdio">>, esp_gpio_handle_swd_gpionums)
Cmd_swclk_num == RunCommand("esp_gpio_swclk_num", <<"swclk">>, esp_gpio_handle_swd_gpionum_swclk)
Cmd_swdio_num == RunCommand("esp_gpio_swdio_num", <<"swdio">>, esp_gpio_handle_swd_gpionum_swdio)

Command ==
    \/ Cmd_jtag_nums \/ Cmd_tck_num \/ Cmd_tms_num \/ Cmd_tdo_num \/ Cmd_tdi_num
    \/ Cmd_srst_num \/ Cmd_trst_num \/ Cmd_blink_num
    \/ Cmd_swd_nums \/ Cmd_swclk_num \/ Cmd_swdio_num

(* ------------------------------------------------------------------ *)
(* Pad access                                                          *)
(* ------------------------------------------------------------------ *)

\* gpio_set_level(g, v): refused (nothing stored) unless g can drive.
gpio_set_level(lv, g, v) ==
    IF GPIO_IS_VALID_OUTPUT_GPIO(g) /\ g \in DOMAIN lv THEN [lv EXCEPT ![g] = v] ELSE lv

\* gpio_set_direction(g, mode): refused for a pad that does not exist, and
\* for an output mode on a pad that cannot drive.
gpio_set_direction(d, g, mode) ==
    IF /\ GPIO_IS_VALID_GPIO(g)
       /\ g \in DOMAIN d
       /\ (mode \in {"output", "input_output"} => GPIO_IS_VALID_OUTPUT_GPIO(g))
    THEN [d EXCEPT ![g] = mode]
    ELSE d

gpio_set(lv, g) == gpio_set_level(lv, g, 1)
gpio_clear(lv, g) == gpio_set_level(lv, g, 0)
gpio_mode_input_set(d, g) == gpio_set_direction(d, g, "input")
gpio_mode_output_set(d, g) == gpio_set_direction(d, g, "output")

\* gpio_ll_set_level(dev, g, v): the register write, no validity check.
gpio_ll_set_level(lv, g, v) == IF g \in DOMAIN lv THEN [lv EXCEPT ![g] = v] ELSE lv

\* The level a pad drives when it is an output: a pad in the pin list of an
\* allocated output bundle is routed to the bit of its (last) position in
\* the list; any other pad drives its own latched level.
BundleSlots(p) ==
    IF gpio_out_bundle = NO_BUNDLE THEN {}
    ELSE {i \in 1..Len(gpio_out_bundle.gpio_array) : gpio_out_bundle.gpio_array[i] = p}

PadOutput(p) ==
    IF BundleSlots(p) # {}
    THEN BitAt(out_reg, (CHOOSE i \in BundleSlots(p) : \A j \in BundleSlots(p) : j <= i) - 1)
    ELSE level[p]

(* ------------------------------------------------------------------ *)
(* Speed                                                               *)
(* ------------------------------------------------------------------ *)

\* esp_gpio_khz with the store moved above the !khz test.
esp_gpio_khz_StoreFirst(khz, cur) ==
    IF khz = 0
    THEN [ret |-> ERROR_FAIL, khz |-> khz, stored |-> FALSE]
    ELSE [ret |-> ERROR_OK, khz |-> khz, stored |-> TRUE]

\* esp_gpio_khz(khz, &jtag_speed) with s_jtag_speed_khz = cur: the return
\* value, the new s_jtag_speed_khz, and whether *jtag_speed was stored (0).
esp_gpio_khz(khz, cur) ==
    IF khz = 0
    THEN [ret |-> ERROR_FAIL, khz |-> cur, stored |-> FALSE]
    ELSE [ret |-> ERROR_OK, khz |-> khz, stored |-> TRUE]

(* ------------------------------------------------------------------ *)
(* Mode validators                                                     *)
(* ------------------------------------------------------------------ *)

\* esp_gpio_jtag_mode_possible with TDO tested as an input (any valid pad).
esp_gpio_jtag_mode_possible_TdoAnyGpio(g) ==
    IF ~GPIO_IS_VALID_OUTPUT_GPIO(g.tck) THEN FALSE
    ELSE IF ~GPIO_IS_VALID_OUTPUT_GPIO(g.tms) THEN FALSE
    ELSE IF ~GPIO_IS_VALID_GPIO(g.tdi) THEN FALSE
    ELSE IF ~GPIO_IS_VALID_GPIO(g.tdo) THEN FALSE
    ELSE TRUE

esp_gpio_jtag_mode_possible(g) ==
    IF ~GPIO_IS_VALID_OUTPUT_GPIO(g.tck) THEN FALSE
    ELSE IF ~GPIO_IS_VALID_OUTPUT_GPIO(g.tms) THEN FALSE
    ELSE IF ~GPIO_IS_VALID_GPIO(g.tdi) THEN FALSE
    ELSE IF ~GPIO_IS_VALID_OUTPUT_GPIO(g.tdo) THEN FALSE
    ELSE TRUE

esp_gpio_swd_mode_possible(g) ==
    IF ~GPIO_IS_VALID_GPIO(g.swclk) THEN FALSE
    ELSE IF ~GPIO_IS_VALID_GPIO(g.swdio) THEN FALSE
    ELSE TRUE

(* ------------------------------------------------------------------ *)
(* esp_gpio_init, statement by statement (pc = "L<source line>")       *)
(* ------------------------------------------------------------------ *)

\* Lines 436-439: the call is entered and the default speed is recorded.
esp_gpio_init_enter ==
    /\ pc = "config"
    /\ s_jtag_speed_khz' = esp_gpio_khz(InitKhz, s_jtag_speed_khz).khz
    /\ op' = [name |-> "esp_gpio_init", args |-> <<>>, outs |-> <<>>]
    /\ pc' = "L445"
    /\ UNCHANGED <<transport, gpio, hw, bundles, table, jtag_delay, ret, ncmds>>

\* The return ERROR_FAIL of lines 456 and 513.
InitFail ==
    /\ ret' = ERROR_FAIL
    /\ pc' = "failed"
    /\ UNCHANGED <<transport, gpio, hw, bundles, table, speed, op, ncmds>>

InitGoto(l) ==
    /\ pc' = l
    /\ UNCHANGED <<transport, gpio, hw, bundles, table, speed, op, ret, ncmds>>

\* Line 445: if (transport_is_jtag())
esp_gpio_init_L445 ==
    /\ pc = "L445"
    /\ InitGoto(IF transport_is_jtag THEN "L446" ELSE "L499")

\* Line 446 without the return of the else branch.
esp_gpio_init_L446_NoReturn ==
    /\ pc = "L446"
    /\ InitGoto("L447")

\* Lines 446, 454-457: if (esp_gpio_jtag_mode_possible()) ... else return ERROR_FAIL
esp_gpio_init_L446 ==
    /\ pc = "L446"
    /\ IF esp_gpio_jtag_mode_possible(gpio) THEN InitGoto("L447") ELSE InitFail

\* The statements of esp_gpio_init that set one pad's level or direction:
\* line |-> what is done to which signal's pin, and the line that follows.
InitPadOps ==
    [l \in {"L447", "L448", "L449", "L450", "L451", "L452", "L453",
            "L463", "L464", "L468", "L469", "L473", "L474",
            "L501", "L502", "L503", "L504", "L507", "L508"} |->
      CASE l = "L447" -> [fn |-> "clear", sig |-> "tdi", next |-> "L448"]
        [] l = "L448" -> [fn |-> "clear", sig |-> "tck", next |-> "L449"]
        [] l = "L449" -> [fn |-> "set", sig |-> "tms", next |-> "L450"]
        [] l = "L450" -> [fn |-> "input", sig |-> "tdo", next |-> "L451"]
        [] l = "L451" -> [fn |-> "output", sig |-> "tdi", next |-> "L452"]
        [] l = "L452" -> [fn |-> "output", sig |-> "tck", next |-> "L453"]
        [] l = "L453" -> [fn |-> "output", sig |-> "tms", next |-> "L459"]
        [] l = "L463" -> [fn |-> "set", sig |-> "trst", next |-> "L464"]
        [] l = "L464" -> [fn |-> "output", sig |-> "trst", next |-> "L465"]
        [] l = "L468" -> [fn |-> "set", sig |-> "srst", next |-> "L469"]
        [] l = "L469" -> [fn |-> "output", sig |-> "srst", next |-> "L470"]
        [] l = "L473" -> [fn |-> "clear", sig |-> "blink", next |-> "L474"]
        [] l = "L474" -> [fn |-> "output", sig |-> "blink", next |-> "L475"]
        [] l = "L501" -> [fn |-> "clear", sig |-> "swdio", next |-> "L502"]
        [] l = "L502" -> [fn |-> "clear", sig |-> "swclk", next |-> "L503"]
        [] l = "L503" -> [fn |-> "output", sig |-> "swdio", next |-> "L504"]
        [] l = "L504" -> [fn |-> "output", sig |-> "swclk", next |-> "L506"]
        [] l = "L507" -> [fn |-> "clear", sig |-> "blink", next |-> "L508"]
        [] l = "L508" -> [fn |-> "output", sig |-> "blink", next |-> "L509"]]

esp_gpio_init_pad ==
    /\ pc \in DOMAIN InitPadOps
    /\ LET e == InitPadOps[pc]
           g == gpio[e.sig]
       IN /\ level' = CASE e.fn = "clear" -> gpio_clear(level, g)
                        [] e.fn = "set" -> gpio_set(level, g)
                        [] OTHER -> level
          /\ dir' = CASE e.fn = "input" -> gpio_mode_input_set(dir, g)
                      [] e.fn = "output" -> gpio_mode_output_set(dir, g)
                      [] OTHER -> dir
          /\ pc' = e.next
    /\ UNCHANGED <<transport, gpio, out_reg, bundles, table, speed, op, ret, ncmds>>

\* Lines 459-460: the initializers of the two local pin arrays.
BundleOutInit(g) == <<g.tck, g.tdi, g.tms, 0, 0, 0>>
bundle_in_gpios == <<tdo_gpio>>

esp_gpio_init_L459 ==
    /\ pc = "L459"
    /\ bundle_out_gpios' = BundleOutInit(gpio)
    /\ pc' = "L462"
    /\ UNCHANGED <<transport, gpio, hw, gpio_out_bundle, gpio_in_bundle, table,
                   speed, op, ret, ncmds>>

\* Lines 462, 467, 472 (JTAG) and 506 (SWD): if (<sig>_gpio != GPIO_NUM_NC)
InitOptional ==
    [l \in {"L462", "L467", "L472", "L506"} |->
      CASE l = "L462" -> [sig |-> "trst", then |-> "L463", else |-> "L467"]
        [] l = "L467" -> [sig |-> "srst", then |-> "L468", else |-> "L472"]
        [] l = "L472" -> [sig |-> "blink", then |-> "L473", else |-> "L495"]
        [] l = "L506" -> [sig |-> "blink", then |-> "L507", else |-> "L516"]]

esp_gpio_init_optional ==
    /\ pc \in DOMAIN InitOptional
    /\ LET e == InitOptional[pc]
       IN InitGoto(IF gpio[e.sig] # GPIO_NUM_NC THEN e.then ELSE e.else)

\* Lines 465, 470, 475: bundle_out_gpios[3 | 4 | 5] = <sig>_gpio
\* (C index i is position i + 1 of the sequence).
InitSlot ==
    [l \in {"L465", "L470", "L475"} |->
      CASE l = "L465" -> [idx |-> 3, sig |-> "trst", next |-> "L467"]
        [] l = "L470" -> [idx |-> 4, sig |-> "srst", next |-> "L472"]
        [] l = "L475" -> [idx |-> 5, sig |-> "blink", next |-> "L476"]]

esp_gpio_init_slot ==
    /\ pc \in DOMAIN InitSlot
    /\ LET e == InitSlot[pc]
       IN /\ bundle_out_gpios' = [bundle_out_gpios EXCEPT ![e.idx + 1] = gpio[e.sig]]
          /\ pc' = e.next
    /\ UNCHANGED <<transport, gpio, hw, gpio_out_bundle, gpio_in_bundle, table,
                   speed, op, ret, ncmds>>

\* Lines 476 and 509 both storing the bundle-bit callback.
esp_gpio_init_blink_BundleVariantOnly ==
    /\ pc \in {"L476", "L509"}
    /\ blink' = "esp_gpio_blink"
    /\ pc' = (IF pc = "L476" THEN "L495" ELSE "L516")
    /\ UNCHANGED <<transport, gpio, hw, bundles, bitbang_interface, speed, op, ret, ncmds>>

\* Lines 476 and 509: esp_gpio_bitbang.blink = <callback>
esp_gpio_init_blink ==
    /\ pc \in {"L476", "L509"}
    /\ blink' = (IF pc = "L476" THEN "esp_gpio_blink" ELSE "esp_gpio_swdio_blink")
    /\ pc' = (IF pc = "L476" THEN "L495" ELSE "L516")
    /\ UNCHANGED <<transport, gpio, hw, bundles, bitbang_interface, speed, op, ret, ncmds>>

\* dedic_gpio_new_bundle(&config, &handle): the allocator either stores a
\* handle for the pin list or fails and stores nothing; its return value is
\* not looked at by the caller.
dedic_gpio_new_bundle(handle, array, flag) ==
    {[gpio_array |-> array, flags |-> flag], handle}

\* Line 495: dedic_gpio_new_bundle(&out_bundle_config, &gpio_out_bundle)
esp_gpio_init_L495 ==
    /\ pc = "L495"
    /\ gpio_out_bundle' \in dedic_gpio_new_bundle(gpio_out_bundle, bundle_out_gpios, "out_en")
    /\ pc' = "L496"
    /\ UNCHANGED <<transport, gpio, hw, gpio_in_bundle, bundle_out_gpios, table,
                   speed, op, ret, ncmds>>

\* Line 496: dedic_gpio_new_bundle(&in_bundle_config, &gpio_in_bundle); the
\* block ends and the local arrays go out of scope.
esp_gpio_init_L496 ==
    /\ pc = "L496"
    /\ gpio_in_bundle' \in dedic_gpio_new_bundle(gpio_in_bundle, bundle_in_gpios, "in_en")
    /\ bundle_out_gpios' = <<>>
    /\ pc' = "L499"
    /\ UNCHANGED <<transport, gpio, hw, gpio_out_bundle, table, speed, op, ret, ncmds>>

\* Line 499 without the test: the SWD block is entered in any transport.
esp_gpio_init_L499_NoTest ==
    /\ pc = "L499"
    /\ InitGoto("L500")

\* Line 499: if (transport_is_swd())
esp_gpio_init_L499 ==
    /\ pc = "L499"
    /\ InitGoto(IF transport_is_swd THEN "L500" ELSE "L516")

\* Lines 500, 511-514: if (esp_gpio_swd_mode_possible()) ... else return ERROR_FAIL
esp_gpio_init_L500 ==
    /\ pc = "L500"
    /\ IF esp_gpio_swd_mode_possible(gpio) THEN InitGoto("L501") ELSE InitFail

\* Lines 516-517: bitbang_interface = &esp_gpio_bitbang; return ERROR_OK
esp_gpio_init_L516 ==
    /\ pc = "L516"
    /\ bitbang_interface' = "esp_gpio_bitbang"
    /\ ret' = ERROR_OK
    /\ pc' = "active"
    /\ UNCHANGED <<transport, gpio, hw, bundles, blink, speed, op, ncmds>>

esp_gpio_init ==
    \/ esp_gpio_init_enter \/ esp_gpio_init_L445 \/ esp_gpio_init_L446
    \/ esp_gpio_init_pad \/ esp_gpio_init_L459 \/ esp_gpio_init_optional
    \/ esp_gpio_init_slot \/ esp_gpio_init_blink \/ esp_gpio_init_L495
    \/ esp_gpio_init_L496 \/ esp_gpio_init_L499 \/ esp_gpio_init_L500
    \/ esp_gpio_init_L516

(* ------------------------------------------------------------------ *)
(* Primitives called by the sequencing engine and the adapter core     *)
(* ------------------------------------------------------------------ *)

\* Argument values the engine passes for a signal level or a flag.
LevelArgs == {0, 1}

\* Speeds the adapter core asks for.
KhzArgs == {0, 1000}

Active == pc = "active" /\ bitbang_interface # NULL

\* Line 138 writing the clock bit first.
esp_gpio_write_L138_ClockFirst ==
    /\ Active /\ transport_is_jtag
    /\ \E tck \in LevelArgs, tms \in LevelArgs, tdi \in LevelArgs :
         /\ op' = [name |-> "esp_gpio_write", args |-> <<tck, tms, tdi>>, outs |-> <<>>]
         /\ out_reg' = dedic_gpio_cpu_ll_write_mask(
                          dedic_gpio_cpu_ll_write_mask(out_reg, GPIO_TCK_MASK,
                             IF tck # 0 THEN GPIO_TCK_MASK ELSE 0),
                          GPIO_TMS_MASK, IF tms # 0 THEN GPIO_TMS_MASK ELSE 0)
    /\ pc' = "L139"
    /\ UNCHANGED <<transport, gpio, level, dir, bundles, table, speed, ret, ncmds>>

\* esp_gpio_write, line 138: the call is entered and the TMS bit is written.
esp_gpio_write_L138 ==
    /\ Active /\ transport_is_jtag
    /\ \E tck \in LevelArgs, tms \in LevelArgs, tdi \in LevelArgs :
         /\ op' = [name |-> "esp_gpio_write", args |-> <<tck, tms, tdi>>, outs |-> <<>>]
         /\ out_reg' = dedic_gpio_cpu_ll_write_mask(out_reg, GPIO_TMS_MASK,
                          IF tms # 0 THEN GPIO_TMS_MASK ELSE 0)
    /\ pc' = "L139"
    /\ UNCHANGED <<transport, gpio, level, dir, bundles, table, speed, ret, ncmds>>

\* Line 139 writing the clock bit, as line 140 does, in place of TDI.
esp_gpio_write_L139_ClockBit ==
    /\ pc = "L139"
    /\ out_reg' = dedic_gpio_cpu_ll_write_mask(out_reg, GPIO_TCK_MASK,
                     IF op.args[1] # 0 THEN GPIO_TCK_MASK ELSE 0)
    /\ pc' = "L140"
    /\ UNCHANGED <<transport, gpio, level, dir, bundles, table, speed, op, ret, ncmds>>

\* Line 139 with the mask of line 138 left in place.
esp_gpio_write_L139_TmsMask ==
    /\ pc = "L139"
    /\ out_reg' = dedic_gpio_cpu_ll_write_mask(out_reg, GPIO_TMS_MASK,
                     IF op.args[3] # 0 THEN GPIO_TMS_MASK ELSE 0)
    /\ pc' = "L140"
    /\ UNCHANGED <<transport, gpio, level, dir, bundles, table, speed, op, ret, ncmds>>

\* esp_gpio_write, line 139: the TDI bit is written.
esp_gpio_write_L139 ==
    /\ pc = "L139"
    /\ out_reg' = dedic_gpio_cpu_ll_write_mask(out_reg, GPIO_TDI_MASK,
                     IF op.args[3] # 0 THEN GPIO_TDI_MASK ELSE 0)
    /\ pc' = "L140"
    /\ UNCHANGED <<transport, gpio, level, dir, bundles, table, speed, op, ret, ncmds>>

\* esp_gpio_write, lines 140-145: the TCK bit is written, the delay loop
\* runs its jtag_delay empty iterations, and the call returns ERROR_OK.
esp_gpio_write_L140 ==
    /\ pc = "L140"
    /\ out_reg' = dedic_gpio_cpu_ll_write_mask(out_reg, GPIO_TCK_MASK,
                     IF op.args[1] # 0 THEN GPIO_TCK_MASK ELSE 0)
    /\ ret' = ERROR_OK
    /\ pc' = "active"
    /\ UNCHANGED <<transport, gpio, level, dir, bundles, table, speed, op, ncmds>>

esp_gpio_write == esp_gpio_write_L138 \/ esp_gpio_write_L139 \/ esp_gpio_write_L140

\* esp_gpio_reset without the srst_gpio != GPIO_NUM_NC test.
ResetReg_NoSrstGuard(reg, g, trst, srst) ==
    LET r1 == IF g.trst # GPIO_NUM_NC
              THEN dedic_gpio_cpu_ll_write_mask(reg, GPIO_TRST_MASK,
                      IF trst # 0 THEN GPIO_TRST_MASK ELSE 0)
              ELSE reg
    IN dedic_gpio_cpu_ll_write_mask(r1, GPIO_SRST_MASK,
          IF srst # 0 THEN GPIO_SRST_MASK ELSE 0)

\* The output register after esp_gpio_reset(trst, srst).
ResetReg(reg, g, trst, srst) ==
    LET r1 == IF g.trst # GPIO_NUM_NC
              THEN dedic_gpio_cpu_ll_write_mask(reg, GPIO_TRST_MASK,
                      IF trst # 0 THEN GPIO_TRST_MASK ELSE 0)
              ELSE reg
    IN IF g.srst # GPIO_NUM_NC
       THEN dedic_gpio_cpu_ll_write_mask(r1, GPIO_SRST_MASK,
               IF srst # 0 THEN GPIO_SRST_MASK ELSE 0)
       ELSE r1

\* adapter_driver.reset, called by the adapter core in either transport.
esp_gpio_reset ==
    /\ Active
    /\ \E trst \in LevelArgs, srst \in LevelArgs :
         /\ op' = [name |-> "esp_gpio_reset", args |-> <<trst, srst>>, outs |-> <<>>]
         /\ out_reg' = ResetReg(out_reg, gpio, trst, srst)
    /\ ret' = ERROR_OK
    /\ UNCHANGED <<transport, gpio, level, dir, bundles, table, speed, pc, ncmds>>

\* The engine calls the blink callback only when one is installed.
esp_gpio_blink ==
    /\ Active /\ blink = "esp_gpio_blink"
    /\ \E on \in LevelArgs :
         /\ op' = [name |-> "esp_gpio_blink", args |-> <<on>>, outs |-> <<>>]
         /\ out_reg' = dedic_gpio_cpu_ll_write_mask(out_reg, GPIO_BLINK_MASK,
                          IF on # 0 THEN GPIO_BLINK_MASK ELSE 0)
    /\ ret' = ERROR_OK
    /\ UNCHANGED <<transport, gpio, level, dir, bundles, table, speed, pc, ncmds>>

esp_gpio_swdio_blink ==
    /\ Active /\ blink = "esp_gpio_swdio_blink"
    /\ \E on \in LevelArgs :
         /\ op' = [name |-> "esp_gpio_swdio_blink", args |-> <<on>>, outs |-> <<>>]
         /\ level' = gpio_ll_set_level(level, blink_gpio, IF on # 0 THEN 1 ELSE 0)
    /\ ret' = ERROR_OK
    /\ UNCHANGED <<transport, gpio, dir, out_reg, bundles, table, speed, pc, ncmds>>

\* adapter_driver.khz
esp_gpio_khz_call ==
    /\ Active
    /\ \E khz \in KhzArgs :
         LET r == esp_gpio_khz(khz, s_jtag_speed_khz) IN
         /\ op' = [name |-> "esp_gpio_khz", args |-> <<khz>>,
                   outs |-> IF r.stored THEN <<0>> ELSE <<>>]
         /\ s_jtag_speed_khz' = r.khz
         /\ ret' = r.ret
    /\ UNCHANGED <<transport, gpio, hw, bundles, table, jtag_delay, pc, ncmds>>

\* adapter_driver.speed_div: *khz = s_jtag_speed_khz
esp_gpio_speed_div ==
    /\ Active
    /\ op' = [name |-> "esp_gpio_speed_div", args |-> <<>>, outs |-> <<s_jtag_speed_khz>>]
    /\ ret' = ERROR_OK
    /\ UNCHANGED <<transport, gpio, hw, bundles, table, jtag_delay, s_jtag_speed_khz,
                   pc, ncmds>>

\* esp_gpio_speed with the assignment of line 187 in effect.
esp_gpio_speed_StoresDelay ==
    /\ Active
    /\ \E sp \in KhzArgs :
         /\ op' = [name |-> "esp_gpio_speed", args |-> <<sp>>, outs |-> <<>>]
         /\ jtag_delay' = sp
    /\ ret' = ERROR_OK
    /\ UNCHANGED <<transport, gpio, hw, bundles, table, s_jtag_speed_khz, pc, ncmds>>

\* adapter_driver.speed: the assignment to jtag_delay is commented out.
esp_gpio_speed ==
    /\ Active
    /\ \E sp \in KhzArgs :
         op' = [name |-> "esp_gpio_speed", args |-> <<sp>>, outs |-> <<>>]
    /\ ret' = ERROR_OK
    /\ UNCHANGED <<transport, gpio, hw, bundles, table, speed, pc, ncmds>>

esp_gpio_quit ==
    /\ Active
    /\ op' = [name |-> "esp_gpio_quit", args |-> <<>>, outs |-> <<>>]
    /\ ret' = ERROR_OK
    /\ pc' = "quit"
    /\ UNCHANGED <<transport, gpio, hw, bundles, table, speed, ncmds>>

Next ==
    \/ Command
    \/ esp_gpio_init
    \/ esp_gpio_write
    \/ esp_gpio_reset
    \/ esp_gpio_blink
    \/ esp_gpio_swdio_blink
    \/ esp_gpio_khz_call
    \/ esp_gpio_speed_div
    \/ esp_gpio_speed
    \/ esp_gpio_quit



Spec == Init /\ [][Next]_vars

(* ------------------------------------------------------------------ *)
(* The validators on every class of pin assignment                     *)
(* ------------------------------------------------------------------ *)

\* Pin numbers the commands can have stored for a required signal: none,
\* an output-capable pad, a number that is no pad, the input-only pad.
PinValues == {GPIO_NUM_NC, 4, 22, 46}

\* Any assignment of the required pins, as the commands can leave it,
\* followed by init.
InitValidators ==
    /\ transport \in {"jtag", "swd"}
    /\ gpio \in [tck : PinValues, tms : PinValues, tdi : PinValues, tdo : PinValues,
                 trst : {GPIO_NUM_NC}, srst : {GPIO_NUM_NC}, blink : {GPIO_NUM_NC, 12},
                 swclk : PinValues, swdio : PinValues]
    /\ jtag_delay = 0
    /\ s_jtag_speed_khz = 0
    /\ level = [p \in Pads |-> 0]
    /\ dir = [p \in Pads |-> "disabled"]
    /\ out_reg = 0
    /\ gpio_out_bundle = NO_BUNDLE
    /\ gpio_in_bundle = NO_BUNDLE
    /\ bundle_out_gpios = <<>>
    /\ bitbang_interface = NULL
    /\ blink = NULL
    /\ pc = "config"
    /\ op = [name |-> "none", args |-> <<>>, outs |-> <<>>]
    /\ ret = ERROR_OK
    /\ ncmds = 0

NextValidators == esp_gpio_init

SpecValidators == InitValidators /\ [][NextValidators]_vars

(* ------------------------------------------------------------------ *)
(* Properties                                                          *)
(* ------------------------------------------------------------------ *)

Truth(x) == IF x # 0 THEN 1 ELSE 0

CommandNames ==
    {"esp_gpio_jtag_nums", "esp_gpio_tck_num", "esp_gpio_tms_num", "esp_gpio_tdo_num",
     "esp_gpio_tdi_num", "esp_gpio_srst_num", "esp_gpio_trst_num", "esp_gpio_blink_num",
     "esp_gpio_swd_nums", "esp_gpio_swclk_num", "esp_gpio_swdio_num"}

\* The argument count each command's usage string gives.
ExpectedArgc(name) ==
    CASE name = "esp_gpio_jtag_nums" -> 4
      [] name = "esp_gpio_swd_nums" -> 2
      [] OTHER -> 1

\* A step in which a configuration command ran.
CmdStep == pc = "config" /\ ncmds' = ncmds + 1 /\ op'.name \in CommandNames

\* C8: every pin-configuration command (jtag-pins, swd-pins and the nine
\* single-pin commands) invoked with an argument count that is neither 0
\* nor its expected count returns a syntax error and leaves every stored
\* pin assignment unchanged.
C8_WrongArgcIsSyntaxError ==
    [][(CmdStep /\ op'.args[1] \notin {0, ExpectedArgc(op'.name)})
         => (ret' = ERROR_COMMAND_SYNTAX_ERROR /\ gpio' = gpio)]_vars

\* esp_gpio_init has been called and has ended, with either result.
InitReturned == op.name = "esp_gpio_init" /\ pc \in {"active", "failed"}

PadsUntouched ==
    /\ level = [p \in Pads |-> 0]
    /\ dir = [p \in Pads |-> "disabled"]

JtagPinsOk(g) ==
    /\ GPIO_IS_VALID_OUTPUT_GPIO(g.tck)
    /\ GPIO_IS_VALID_OUTPUT_GPIO(g.tms)
    /\ GPIO_IS_VALID_OUTPUT_GPIO(g.tdo)
    /\ GPIO_IS_VALID_GPIO(g.tdi)

SwdPinsOk(g) == GPIO_IS_VALID_GPIO(g.swclk) /\ GPIO_IS_VALID_GPIO(g.swdio)

\* C1: when init runs with the JTAG transport active and the JTAG pins not
\* valid, or with the SWD transport active and the SWD pins not valid, it
\* gets no further than the validation, returns ERROR_FAIL, and has changed
\* no pad level or direction, allocated no bundle and not installed the
\* callback table.
C1_ValidationFailureIsFatal ==
    (/\ op.name = "esp_gpio_init"
     /\ \/ transport_is_jtag /\ ~JtagPinsOk(gpio)
        \/ transport_is_swd /\ ~SwdPinsOk(gpio))
    => /\ pc \in {"L445", "L446", "L499", "L500", "failed"}
       /\ pc = "failed" => ret = ERROR_FAIL
       /\ PadsUntouched
       /\ out_reg = 0
       /\ gpio_out_bundle = NO_BUNDLE /\ gpio_in_bundle = NO_BUNDLE
       /\ bitbang_interface = NULL /\ blink = NULL

\* C1 witness: a JTAG init has failed on an input-only TDO pin.
C1_Witness ==
    /\ pc = "failed" /\ op.name = "esp_gpio_init" /\ ret = ERROR_FAIL
    /\ transport_is_jtag /\ tck_gpio = 4 /\ tdo_gpio = 46

\* C2: if the allocation of the output bundle or of the input bundle fails
\* during a JTAG-mode init, init returns an error and the callback table is
\* not installed.
C2_AllocationFailureIsFatal ==
    (/\ InitReturned /\ transport_is_jtag
     /\ gpio_out_bundle = NO_BUNDLE \/ gpio_in_bundle = NO_BUNDLE)
    => (ret = ERROR_FAIL /\ bitbang_interface = NULL)

\* C3: after a successful JTAG-mode init the output bundle's pin list is
\* TCK, TDI, TMS, then TRST, SRST and the indicator where configured and no
\* pin (GPIO_NUM_NC) where not; the input bundle's pin list is TDO.
C3_BundleLayout ==
    (/\ InitReturned /\ ret = ERROR_OK /\ transport_is_jtag
     /\ gpio_out_bundle # NO_BUNDLE /\ gpio_in_bundle # NO_BUNDLE)
    => /\ gpio_out_bundle.gpio_array =
             <<tck_gpio, tdi_gpio, tms_gpio,
               IF trst_gpio # GPIO_NUM_NC THEN trst_gpio ELSE GPIO_NUM_NC,
               IF srst_gpio # GPIO_NUM_NC THEN srst_gpio ELSE GPIO_NUM_NC,
               IF blink_gpio # GPIO_NUM_NC THEN blink_gpio ELSE GPIO_NUM_NC>>
       /\ gpio_in_bundle.gpio_array = <<tdo_gpio>>

\* A step of esp_gpio_write: its entry or one of its later statements.
WriteStep == (pc = "active" /\ pc' = "L139") \/ pc = "L139" \/ pc = "L140"

\* Bits 3 and up of the output register (TRST, SRST, indicator, unused).
HighBits(reg) == reg \div 8

\* C4: no step of jtagWrite(tck, tms, tdi) changes bits 3..5 of the output
\* bundle, and when the call returns bit 0 (TCK) = (tck != 0), bit 1 (TDI) =
\* (tdi != 0), bit 2 (TMS) = (tms != 0) and the result is ERROR_OK.
C4_WritePostcondition ==
    [][/\ WriteStep => HighBits(out_reg') = HighBits(out_reg)
       /\ (pc = "L140" /\ pc' = "active")
            => /\ BitAt(out_reg', 0) = Truth(op.args[1])
               /\ BitAt(out_reg', 1) = Truth(op.args[3])
               /\ BitAt(out_reg', 2) = Truth(op.args[2])
               /\ ret' = ERROR_OK]_vars

\* C4 witness: jtagWrite(1, 0, 1) has returned with TRST asserted before it.
C4_Witness ==
    /\ pc = "active" /\ op.name = "esp_gpio_write" /\ op.args = <<1, 0, 1>>
    /\ out_reg = GPIO_TRST_MASK + GPIO_TDI_MASK + GPIO_TCK_MASK

\* C5 as claimed: jtagWrite updates TMS, TDI and TCK in one atomic step, so
\* any step of the call that changes the output bundle leaves all three
\* bits at the values the call was given.
C5_WriteIsOneAtomicStep ==
    [][(WriteStep /\ out_reg' # out_reg)
         => /\ BitAt(out_reg', 0) = Truth(op'.args[1])
            /\ BitAt(out_reg', 1) = Truth(op'.args[3])
            /\ BitAt(out_reg', 2) = Truth(op'.args[2])]_vars

\* C5 as amended: jtagWrite updates the output bundle in three atomic mask
\* writes, TMS first, then TDI, then TCK; each sets its own bit to the value
\* given and changes no other bit.
C5_WriteIsThreeMaskWrites ==
    [][/\ (pc = "active" /\ pc' = "L139")
            => /\ BitAt(out_reg', 2) = Truth(op'.args[2])
               /\ \A i \in 0..7 \ {2} : BitAt(out_reg', i) = BitAt(out_reg, i)
       /\ pc = "L139"
            => /\ pc' = "L140"
               /\ BitAt(out_reg', 1) = Truth(op.args[3])
               /\ \A i \in 0..7 \ {1} : BitAt(out_reg', i) = BitAt(out_reg, i)
       /\ pc = "L140"
            => /\ pc' = "active"
               /\ BitAt(out_reg', 0) = Truth(op.args[1])
               /\ \A i \in 0..7 \ {0} : BitAt(out_reg', i) = BitAt(out_reg, i)]_vars

\* C5 witness: inside jtagWrite(1, 1, 1), TMS already high, TDI and TCK
\* still low.
C5_Witness ==
    /\ pc = "L139" /\ op.args = <<1, 1, 1>>
    /\ BitAt(out_reg, 2) = 1 /\ BitAt(out_reg, 1) = 0 /\ BitAt(out_reg, 0) = 0

\* A step in which esp_gpio_reset ran.
ResetStep == pc = "active" /\ pc' = "active" /\ op'.name = "esp_gpio_reset"

\* C6: jtagReset(trst, srst) sets the bundle bit of each configured reset
\* line to its argument, leaves the bit of an unconfigured line and the
\* TCK, TDI, TMS and indicator bits unchanged, changes nothing when neither
\* line is configured, and returns ERROR_OK.
C6_ResetTouchesConfiguredLinesOnly ==
    [][ResetStep
         => /\ ret' = ERROR_OK
            /\ BitAt(out_reg', 3) = (IF trst_gpio # GPIO_NUM_NC
                                     THEN Truth(op'.args[1]) ELSE BitAt(out_reg, 3))
            /\ BitAt(out_reg', 4) = (IF srst_gpio # GPIO_NUM_NC
                                     THEN Truth(op'.args[2]) ELSE BitAt(out_reg, 4))
            /\ \A i \in {0, 1, 2, 5, 6, 7} : BitAt(out_reg', i) = BitAt(out_reg, i)
            /\ (trst_gpio = GPIO_NUM_NC /\ srst_gpio = GPIO_NUM_NC)
                 => out_reg' = out_reg
            /\ UNCHANGED <<level, dir, gpio>>]_vars

\* C6 witness: jtagReset(1, 1) has run with only TRST configured.
C6_Witness ==
    /\ pc = "active" /\ op.name = "esp_gpio_reset" /\ op.args = <<1, 1>>
    /\ trst_gpio # GPIO_NUM_NC /\ srst_gpio = GPIO_NUM_NC
    /\ BitAt(out_reg, 3) = 1 /\ BitAt(out_reg, 4) = 0

\* A step in which esp_gpio_khz was called by the adapter core.
KhzStep == pc = "active" /\ pc' = "active" /\ op'.name = "esp_gpio_khz"

\* C7: setSpeedKhz(0) fails and leaves the recorded kHz unchanged; for
\* khz != 0 it succeeds, stores 0 as the speed, records khz, and a
\* getSpeedKhz that follows it returns khz.
C7_SetSpeed ==
    [][/\ KhzStep
            => IF op'.args[1] = 0
               THEN /\ ret' = ERROR_FAIL
                    /\ s_jtag_speed_khz' = s_jtag_speed_khz
               ELSE /\ ret' = ERROR_OK
                    /\ op'.outs = <<0>>
                    /\ s_jtag_speed_khz' = op'.args[1]
       /\ (/\ op.name = "esp_gpio_khz" /\ ret = ERROR_OK
           /\ op'.name = "esp_gpio_speed_div")
            => op'.outs = <<op.args[1]>>]_vars

\* C7 witness: setSpeedKhz(0) has failed after 1000 kHz was recorded.
C7_Witness ==
    /\ op.name = "esp_gpio_khz" /\ op.args = <<0>> /\ ret = ERROR_FAIL
    /\ s_jtag_speed_khz = 1000

GroupSignals(name) ==
    IF name = "esp_gpio_jtag_nums" THEN <<"tck", "tms", "tdi", "tdo">>
    ELSE <<"swclk", "swdio">>

\* C9: an invocation of jtag-pins or swd-pins either stores all the pins of
\* its group (and succeeds) or changes none of them; a failure, such as an
\* argument that is not a number, leaves all of them as they were.
C9_GroupCommandsAreAtomic ==
    [][(CmdStep /\ op'.name \in {"esp_gpio_jtag_nums", "esp_gpio_swd_nums"})
         => LET sigs == GroupSignals(op'.name) IN
            \/ /\ ret' = ERROR_OK
               /\ op'.args[1] = Len(sigs)
               /\ \E v \in ArgVecs(Len(sigs), sigs) :
                    \A i \in 1..Len(sigs) :
                       parse_int(v[i]).ok /\ gpio'[sigs[i]] = parse_int(v[i]).val
            \/ \A i \in 1..Len(sigs) : gpio'[sigs[i]] = gpio[sigs[i]]]_vars

\* C10: the JTAG validator is true exactly when TCK, TMS and TDO are valid
\* output-capable pins and TDI is a valid pin, and unassigning any one of
\* the four makes it false; the SWD validator is true exactly when SWCLK
\* and SWDIO are valid pins, and unassigning either makes it false; init
\* goes on to the pin setup of a transport only with its validator true.
C10_Validators ==
    /\ esp_gpio_jtag_mode_possible(gpio) = JtagPinsOk(gpio)
    /\ esp_gpio_swd_mode_possible(gpio) = SwdPinsOk(gpio)
    /\ JtagPinsOk(gpio)
         => \A s \in {"tck", "tms", "tdi", "tdo"} :
               ~esp_gpio_jtag_mode_possible([gpio EXCEPT ![s] = GPIO_NUM_NC])
    /\ SwdPinsOk(gpio)
         => \A s \in {"swclk", "swdio"} :
               ~esp_gpio_swd_mode_possible([gpio EXCEPT ![s] = GPIO_NUM_NC])
    /\ pc = "L447" => JtagPinsOk(gpio)
    /\ pc = "L501" => SwdPinsOk(gpio)
    /\ (pc = "failed" /\ transport_is_jtag) => ~JtagPinsOk(gpio)
    /\ (pc = "failed" /\ transport_is_swd) => ~SwdPinsOk(gpio)

\* C10 witness: init has passed the JTAG validation with TDI on the
\* input-only pad.
C10_Witness ==
    /\ pc = "L447" /\ tdi_gpio = 46
    /\ tck_gpio = 4 /\ tms_gpio = 4 /\ tdo_gpio = 4

\* esp_gpio_init has returned ERROR_OK and the table is installed.
InitSucceeded == pc \in {"active", "L139", "L140", "quit"}

\* C11: after a successful init the blink callback of the installed table
\* is set exactly when the indicator pin is configured; it is esp_gpio_blink
\* (bundle bit) in a JTAG session and esp_gpio_swdio_blink (direct pin) in an
\* SWD session; so an indicator write happens only with the indicator pin
\* configured, and in a JTAG session it goes to the slot of the output
\* bundle's pin list that holds that pin.
C11_BlinkInstalledIffConfigured ==
    /\ InitSucceeded
         => /\ bitbang_interface = "esp_gpio_bitbang"
            /\ (blink # NULL) <=> (blink_gpio # GPIO_NUM_NC)
            /\ blink # NULL
                 => blink = (IF transport_is_jtag THEN "esp_gpio_blink"
                             ELSE "esp_gpio_swdio_blink")
    /\ op.name = "esp_gpio_blink"
         => /\ blink_gpio # GPIO_NUM_NC /\ transport_is_jtag
            /\ gpio_out_bundle # NO_BUNDLE
                 => gpio_out_bundle.gpio_array[6] = blink_gpio
    /\ op.name = "esp_gpio_swdio_blink"
         => /\ blink_gpio # GPIO_NUM_NC /\ transport_is_swd
            /\ blink_gpio \in Pads

\* C11 witness: in an SWD session the indicator has been switched on through
\* its pin; the output register was not touched.
C11_Witness ==
    /\ op.name = "esp_gpio_swdio_blink" /\ op.args = <<1>>
    /\ transport_is_swd /\ blink_gpio = 12 /\ level[12] = 1 /\ out_reg = 0

\* Positions inside the if (transport_is_jtag()) block, lines 446-496, and
\* inside the if (transport_is_swd()) block, lines 500-514.
JtagPathLines ==
    {"L446", "L447", "L448", "L449", "L450", "L451", "L452", "L453", "L459",
     "L462", "L463", "L464", "L465", "L467", "L468", "L469", "L470", "L472",
     "L473", "L474", "L475", "L476", "L495", "L496"}
SwdPathLines ==
    {"L500", "L501", "L502", "L503", "L504", "L506", "L507", "L508", "L509"}

\* What each path leaves behind on the pads: line 450 makes TDO an input,
\* line 504 makes SWCLK an output.
JtagPathRan == tdo_gpio \in Pads /\ dir[tdo_gpio] = "input"
SwdPathRan == swclk_gpio \in Pads /\ dir[swclk_gpio] = "output"

\* C12: init is inside the JTAG setup block only with the JTAG transport
\* and inside the SWD setup block only with the SWD transport; after a
\* successful init exactly one of the two blocks has run, the one of the
\* session's transport.
C12_ExactlyOnePath ==
    /\ pc \in JtagPathLines => transport_is_jtag
    /\ pc \in SwdPathLines => transport_is_swd
    /\ InitSucceeded
         => /\ JtagPathRan # SwdPathRan
            /\ JtagPathRan <=> transport_is_jtag
            /\ SwdPathRan <=> transport_is_swd

\* C12 witness: an SWD init has succeeded with the JTAG pins assigned too;
\* the JTAG pads were left alone.
C12_Witness ==
    /\ pc = "active" /\ transport_is_swd
    /\ tck_gpio = 4 /\ tdo_gpio = 7 /\ swclk_gpio = 10
    /\ dir[4] = "disabled" /\ dir[7] = "disabled" /\ dir[10] = "output"
    /\ gpio_out_bundle = NO_BUNDLE

\* C13: TRST and SRST are active-low, at init and in jtagReset alike: a
\* configured reset line drives high when a successful JTAG init returns
\* and after a jtagReset whose argument for it is 0, and drives low after a
\* jtagReset whose argument for it is 1.
C13_ResetPolarityActiveLow ==
    \A s \in {"trst", "srst"} :
       (transport_is_jtag /\ gpio[s] # GPIO_NUM_NC /\ pc = "active")
       => LET n == IF s = "trst" THEN 1 ELSE 2 IN
          /\ op.name = "esp_gpio_init" => PadOutput(gpio[s]) = 1
          /\ op.name = "esp_gpio_reset" => PadOutput(gpio[s]) = 1 - Truth(op.args[n])

\* C14: no step of init, setSpeedKhz, getSpeedKhz or speed-apply (nor any
\* other) changes the delay count from 0; the recorded kHz changes only to
\* 5000 when init is entered and to khz in a successful setSpeedKhz(khz);
\* getSpeedKhz returns the recorded kHz and changes nothing.
C14_DelayIndependentOfSpeed ==
    [][/\ jtag_delay = 0 /\ jtag_delay' = 0
       /\ (pc = "config" /\ pc' = "L445") => s_jtag_speed_khz' = InitKhz
       /\ s_jtag_speed_khz' # s_jtag_speed_khz
            => \/ pc = "config" /\ pc' = "L445"
               \/ KhzStep /\ ret' = ERROR_OK /\ s_jtag_speed_khz' = op'.args[1]
       /\ (pc = "active" /\ op'.name = "esp_gpio_speed_div")
            => /\ op'.outs = <<s_jtag_speed_khz>>
               /\ ret' = ERROR_OK
               /\ UNCHANGED <<speed, hw, gpio>>
       /\ (pc = "active" /\ op.name = "esp_gpio_init"
           /\ op'.name = "esp_gpio_speed_div")
            => op'.outs = <<InitKhz>>]_vars

\* C14 witness: speed-apply(1000) has run after setSpeedKhz(1000) was
\* recorded; the delay count is still 0.
C14_Witness ==
    /\ op.name = "esp_gpio_speed" /\ op.args = <<1000>>
    /\ s_jtag_speed_khz = 1000 /\ jtag_delay = 0

\* A step that executes a dedic_gpio_cpu_ll_write_mask call: a statement of
\* esp_gpio_write, esp_gpio_blink, or esp_gpio_reset with a reset line
\* configured.
MaskWriteStep ==
    \/ WriteStep
    \/ pc = "active" /\ pc' = "active" /\ op'.name = "esp_gpio_blink"
    \/ ResetStep /\ (trst_gpio # GPIO_NUM_NC \/ srst_gpio # GPIO_NUM_NC)

\* C15: a mask write to the output bundle happens only in a JTAG session
\* whose output bundle has been allocated by init; a reset call in an SWD
\* session performs none, and the output register never changes while no
\* bundle is allocated.
C15_BundleWritesNeedBundle ==
    [][/\ MaskWriteStep => (transport_is_jtag /\ gpio_out_bundle # NO_BUNDLE)
       /\ out_reg' # out_reg => gpio_out_bundle # NO_BUNDLE]_vars

\* C16: in a jtagWrite call the clock is written last: a step of the call
\* that changes the TCK bit finds the TMS and TDI bits already at the values
\* the call was given and leaves them there, and it is the step on which
\* the call returns.
C16_ClockUpdatedLast ==
    [][(WriteStep /\ BitAt(out_reg', 0) # BitAt(out_reg, 0))
         => /\ BitAt(out_reg, 2) = Truth(op'.args[2])
            /\ BitAt(out_reg, 1) = Truth(op'.args[3])
            /\ BitAt(out_reg', 2) = BitAt(out_reg, 2)
            /\ BitAt(out_reg', 1) = BitAt(out_reg, 1)
            /\ BitAt(out_reg', 0) = Truth(op'.args[1])
            /\ pc = "L140" /\ pc' = "active"]_vars

\* C16 witness: jtagWrite(1, 1, 0) has returned after raising the clock
\* with TMS high and TDI low.
C16_Witness ==
    /\ pc = "active" /\ op.name = "esp_gpio_write" /\ op.args = <<1, 1, 0>>
    /\ BitAt(out_reg, 0) = 1 /\ BitAt(out_reg, 2) = 1 /\ BitAt(out_reg, 1) = 0

\* The level each driven signal is given by init before its pad is made an
\* output (lines 447-449, 463, 468, 473, 501-502, 507).
IdleLevel ==
    [tdi |-> 0, tck |-> 0, tms |-> 1, trst |-> 1, srst |-> 1, blink |-> 0,
     swdio |-> 0, swclk |-> 0]

\* No pad is assigned to two signals.
DistinctPins ==
    \A s \in Signals, t \in Signals :
       (s # t /\ gpio[s] # GPIO_NUM_NC) => gpio[s] # gpio[t]

\* C17: with every signal on a pad of its own, from the entry of init to
\* its return no pad of a driven signal is an output driving a level other
\* than the signal's idle level (TDI, TCK low, TMS high, TRST, SRST high,
\* indicator low, SWDIO, SWCLK low), init having latched the level before
\* it switched the direction; and when a JTAG init has succeeded TDO is an
\* input.
C17_IdleLevelsDuringInit ==
    (op.name = "esp_gpio_init" /\ DistinctPins)
    => /\ \A s \in DOMAIN IdleLevel :
            (gpio[s] \in Pads /\ dir[gpio[s]] = "output")
            => PadOutput(gpio[s]) = IdleLevel[s]
       /\ (pc = "active" /\ transport_is_jtag) => dir[tdo_gpio] = "input"

====
